---- MODULE Spec2Model ----
(***************************************************************************)
(* Model of src/index.js: the per-user rate limiter (checkUserLimit), the  *)
(* in-memory conversation store (getRecord, trimToLimit, pushToHistory,    *)
(* askAIWithSmartContext, updateSummary), the stale-user sweeper and the   *)
(* detached webhook handler that composes them.                            *)
(*                                                                         *)
(* JavaScript runs each handler synchronously up to its next await, so one *)
(* action of the model is one such run-to-await segment.  Records are      *)
(* objects: a handler suspended inside askAIWithSmartContext keeps its     *)
(* reference to the record it fetched even when the map entry is deleted,  *)
(* so records live in a heap and the map holds references.                 *)
(*                                                                         *)
(* Times are in model ticks; the windows of the source (60 s, 1 h, 24 h)   *)
(* are scaled down keeping their order.  The sweeper's period (30 min) is  *)
(* shorter than a tick, so a sweeper run may happen at any instant.        *)
(***************************************************************************)
EXTENDS Integers, Sequences, FiniteSets, TLC

\* ------------------------------------------------------------ bounds
MaxTime == 4
MaxMsgs == 3
MaxFlows == 2
MaxPushes == 4
LiveMsgs == 2

\* ------------------------------------------------- program constants
PER_MIN == 1
PER_HOUR == 2
MIN_WINDOW_MS == 1
HOUR_WINDOW_MS == 3
MAX_USERS_IN_MEMORY == 1
HISTORY_LIMIT == 3
RECENT_RAW_LIMIT == 1
STALE_MS == 3

Users == {"u1", "u2"}
Texts == {"hi"}
ModelTexts == {"re"}
SummaryTexts == {"s1", "s2"}
FALLBACK == "Unsure about answer"
Flows == 1..MaxFlows
NoRef == 0

VARIABLES
  now,            \* Date.now()
  userRate,       \* Map userId -> {min, hour}
  historyByUser,  \* Map userId -> record reference, in insertion order
  heap,           \* reference -> {messages, summary, summarizedCount, lastSeen}
                  \* (and, as history, `appended`: the turns ever pushed to it)
  flow,           \* the detached handlers, each idle or suspended at an await
  nmsg,           \* inbound text messages received so far
  admitted,       \* history: per user, the times of its admitted calls
  replied,        \* history: per user, the admitted calls whose reply is stored
  lastActive,     \* history: per user, the time its record was last touched
  grown,          \* history: the users a record of whom outgrew the raw window
  started,        \* history: per user, the completion calls its handlers began:
                  \* for which admitted call (n) and when (at)
  driver          \* the direct caller of TwiceSpec (idle otherwise)

histVars == <<admitted, replied, lastActive, grown, started>>
vars == <<now, userRate, historyByUser, heap, flow, nmsg, histVars, driver>>

Max(a, b) == IF a >= b THEN a ELSE b
Min(a, b) == IF a <= b THEN a ELSE b

\* Map.set(k, v) on a function used as a Map
MapSet(m, k, v) == [x \in DOMAIN m \cup {k} |-> IF x = k THEN v ELSE m[x]]
\* Map.delete over a set of keys
MapDelete(m, ks) == [x \in DOMAIN m \ ks |-> m[x]]

\* ------------------------------------------------------ rate limiter
\* userRate.get(userId) || { min: [], hour: [] }
RateRecordOf(rate, userId) ==
  IF userId \in DOMAIN rate THEN rate[userId] ELSE [min |-> <<>>, hour |-> <<>>]

\* arr.filter((t) => now - t < window)
Within(hits, t, window) == SelectSeq(hits, LAMBDA x : t - x < window)

MinuteFull_offByOne(rec) == Len(rec.min) > PER_MIN
\* rec.min.length >= PER_MIN
MinuteFull(rec) == Len(rec.min) >= PER_MIN
\* rec.hour.length >= PER_HOUR
HourFull(rec) == Len(rec.hour) >= PER_HOUR

checkUserLimit_recordsRejected(rate, userId, t) ==
  LET rec == RateRecordOf(rate, userId)
      pruned == [min |-> Within(rec.min, t, MIN_WINDOW_MS),
                 hour |-> Within(rec.hour, t, HOUR_WINDOW_MS)]
      hit == MapSet(rate, userId, [min |-> Append(pruned.min, t),
                                   hour |-> Append(pruned.hour, t)])
  IN IF MinuteFull(pruned) THEN [ok |-> FALSE, scope |-> "minute", rate |-> hit]
     ELSE IF HourFull(pruned) THEN [ok |-> FALSE, scope |-> "hour", rate |-> hit]
     ELSE [ok |-> TRUE, scope |-> "none", rate |-> hit]
checkUserLimit_hourFirst(rate, userId, t) ==
  LET rec == RateRecordOf(rate, userId)
      pruned == [min |-> Within(rec.min, t, MIN_WINDOW_MS),
                 hour |-> Within(rec.hour, t, HOUR_WINDOW_MS)]
      stored == IF userId \in DOMAIN rate
                  THEN [rate EXCEPT ![userId] = pruned] ELSE rate
  IN IF HourFull(pruned) THEN [ok |-> FALSE, scope |-> "hour", rate |-> stored]
     ELSE IF MinuteFull(pruned) THEN [ok |-> FALSE, scope |-> "minute", rate |-> stored]
     ELSE [ok |-> TRUE, scope |-> "none",
           rate |-> MapSet(rate, userId, [min |-> Append(pruned.min, t),
                                          hour |-> Append(pruned.hour, t)])]
\* checkUserLimit(userId) at time t: the decision and the Map afterwards.
\* The two filters assign to the fields of the stored object, so a rejected
\* call leaves the stored record pruned; only an admitted call does Map.set.
checkUserLimit(rate, userId, t) ==
  LET rec == RateRecordOf(rate, userId)
      pruned == [min |-> Within(rec.min, t, MIN_WINDOW_MS),
                 hour |-> Within(rec.hour, t, HOUR_WINDOW_MS)]
      stored == IF userId \in DOMAIN rate
                  THEN [rate EXCEPT ![userId] = pruned] ELSE rate
  IN IF MinuteFull(pruned) THEN [ok |-> FALSE, scope |-> "minute", rate |-> stored]
     ELSE IF HourFull(pruned) THEN [ok |-> FALSE, scope |-> "hour", rate |-> stored]
     ELSE [ok |-> TRUE, scope |-> "none",
           rate |-> MapSet(rate, userId, [min |-> Append(pruned.min, t),
                                          hour |-> Append(pruned.hour, t)])]

\* -------------------------------------------------- conversation store
\* historyByUser is a sequence of [key, ref] in insertion order (a JS Map
\* iterates in insertion order; the eviction loop depends on it).
Keys(hist) == {hist[i].key : i \in 1..Len(hist)}
RefOf(hist, userId) ==
  IF userId \in Keys(hist)
    THEN hist[CHOOSE i \in 1..Len(hist) : hist[i].key = userId].ref
    ELSE NoRef
HistDelete(hist, ks) == SelectSeq(hist, LAMBDA e : e.key \notin ks)

\* a new object: the least reference not in use
FreshRef(hp) ==
  CHOOSE r \in 1..(Cardinality(DOMAIN hp) + 1) :
    r \notin DOMAIN hp /\ \A q \in 1..(r - 1) : q \in DOMAIN hp

NewRecord(t) ==
  [messages |-> <<>>, summary |-> "", summarizedCount |-> 0, lastSeen |-> t,
   appended |-> 0]

\* getRecord(userId): creates the record when the Map has none, stamps
\* lastSeen, returns the reference.
getRecord(hist, hp, userId, t) ==
  LET fresh == userId \notin Keys(hist)
      ref == IF fresh THEN FreshRef(hp) ELSE RefOf(hist, userId)
      hist1 == IF fresh THEN Append(hist, [key |-> userId, ref |-> ref]) ELSE hist
      hp1 == IF fresh THEN MapSet(hp, ref, NewRecord(t)) ELSE hp
  IN [hist |-> hist1, heap |-> [hp1 EXCEPT ![ref].lastSeen = t], ref |-> ref]

trimToLimit_noTrim(record) == record
trimToLimit_noFloor(record) ==
  IF Len(record.messages) <= HISTORY_LIMIT THEN record
  ELSE LET overflow == Len(record.messages) - HISTORY_LIMIT
       IN [record EXCEPT
             !.summarizedCount = record.summarizedCount - overflow,
             !.messages = SubSeq(record.messages, overflow + 1, Len(record.messages))]
trimToLimit_dropsNewest(record) ==
  IF Len(record.messages) <= HISTORY_LIMIT THEN record
  ELSE LET overflow == Len(record.messages) - HISTORY_LIMIT
       IN [record EXCEPT
             !.summarizedCount = Max(0, record.summarizedCount - overflow),
             !.messages = SubSeq(record.messages, 1, HISTORY_LIMIT)]
\* trimToLimit(record)
trimToLimit(record) ==
  IF Len(record.messages) <= HISTORY_LIMIT THEN record
  ELSE LET overflow == Len(record.messages) - HISTORY_LIMIT
       IN [record EXCEPT
             !.summarizedCount = Max(0, record.summarizedCount - overflow),
             !.messages = SubSeq(record.messages, overflow + 1, Len(record.messages))]

OldestKey_firstInserted(hist, hp) == hist[1].key
\* the eviction loop: the first entry, in insertion order, of least lastSeen
OldestKey(hist, hp) ==
  LET i == CHOOSE i \in 1..Len(hist) :
             /\ \A j \in 1..Len(hist) : hp[hist[j].ref].lastSeen >= hp[hist[i].ref].lastSeen
             /\ \A j \in 1..(i - 1) : hp[hist[j].ref].lastSeen > hp[hist[i].ref].lastSeen
  IN hist[i].key

\* historyByUser.size > MAX_USERS_IN_MEMORY, for a given value of the ceiling
OverCapacityOf(hist, ceiling) == Len(hist) > ceiling
OverCapacity(hist) == OverCapacityOf(hist, MAX_USERS_IN_MEMORY)

\* pushToHistory(userId, role, content) under a given ceiling.  A turn is
\* {role, content}; as history it carries its append number in the record
\* (id), the number of summarizer calls that were handed it (sent) and
\* whether one of them has thrown (failed).
pushToHistoryAt(ceiling, hist, hp, userId, role, content, t) ==
  LET g == getRecord(hist, hp, userId, t)
      old == g.heap[g.ref]
      turn == [role |-> role, content |-> content, id |-> old.appended + 1,
               sent |-> 0, failed |-> FALSE]
      pushed == [old EXCEPT !.messages = Append(@, turn),
                            !.appended = old.appended + 1]
      hp1 == [g.heap EXCEPT ![g.ref] = trimToLimit(pushed)]
      hist1 == IF OverCapacityOf(g.hist, ceiling)
                 THEN HistDelete(g.hist, {OldestKey(g.hist, hp1)}) ELSE g.hist
  IN [hist |-> hist1, heap |-> hp1]

\* pushToHistory(userId, role, content)
pushToHistory(hist, hp, userId, role, content, t) ==
  pushToHistoryAt(MAX_USERS_IN_MEMORY, hist, hp, userId, role, content, t)

\* the keys the sweeper deletes at time t: now - v.lastSeen > STALE_MS
StaleKeys(hist, hp, t) ==
  {hist[i].key : i \in {j \in 1..Len(hist) : t - hp[hist[j].ref].lastSeen > STALE_MS}}

\* ------------------------------------------------------ context build
SYSTEM_PROMPT == [role |-> "system", content |-> "instruction", id |-> 0]
SummaryEntry(summary) == [role |-> "system", content |-> summary, id |-> 0]
\* a stored turn as an entry of a request
Entry(turn) == [role |-> turn.role, content |-> turn.content, id |-> turn.id]
Entries(turns) == [i \in 1..Len(turns) |-> Entry(turns[i])]

\* Array.prototype.slice(start, end) on a sequence: 0-based, end excluded,
\* a negative index counts from the end, indices are clamped to the array
slice(s, start, end) ==
  LET from == IF start < 0 THEN Max(Len(s) + start, 0) ELSE Min(start, Len(s))
      to == IF end < 0 THEN Max(Len(s) + end, 0) ELSE Min(end, Len(s))
  IN SubSeq(s, from + 1, to)

olderCountOf_offByOne(record) ==
  Max(0, Len(record.messages) - RECENT_RAW_LIMIT + 1)
olderCountOf_noWindow(record) == Max(0, Len(record.messages))
\* Math.max(0, msgs.length - RECENT_RAW_LIMIT)
olderCountOf(record) == Max(0, Len(record.messages) - RECENT_RAW_LIMIT)

newChunk_fromStart(record, older) == Entries(slice(record.messages, 0, older))
\* msgs.slice(record.summarizedCount, olderCount)
newChunk(record, older) ==
  Entries(slice(record.messages, record.summarizedCount, older))

recentOfAt_oldest(limit, record) == Entries(slice(record.messages, 0, limit))
\* msgs.slice(-RECENT_RAW_LIMIT), for a given value of the limit
recentOfAt(limit, record) ==
  Entries(slice(record.messages, -limit, Len(record.messages)))
recentOf(record) == recentOfAt(RECENT_RAW_LIMIT, record)

\* the array handed to the completion call, for a given value of the limit
messagesForModelAt(limit, record) ==
  <<SYSTEM_PROMPT>>
    \o (IF record.summary # "" THEN <<SummaryEntry(record.summary)>> ELSE <<>>)
    \o recentOfAt(limit, record)
messagesForModel(record) == messagesForModelAt(RECENT_RAW_LIMIT, record)

\* updateSummary reaches its openai call unless newMessages is empty
updateSummaryCalls(newMessages) == Len(newMessages) # 0

\* what updateSummary returns for the collaborator's outcome: a thrown
\* error ("fail") or an empty content ("empty") give existingSummary
summaryResult(existingSummary, outcome) ==
  IF outcome \in SummaryTexts THEN outcome ELSE existingSummary

completionResult_emptyOnFailure(outcome) ==
  IF outcome \in ModelTexts THEN outcome ELSE ""
\* what askAIWithSmartContext returns for the completion's outcome
completionResult(outcome) ==
  IF outcome \in ModelTexts THEN outcome ELSE FALLBACK

contextResume_noAdvance(record, older, result) ==
  [record EXCEPT !.summary = result]
\* the assignments after `await updateSummary(...)`
contextResume(record, older, result) ==
  [record EXCEPT !.summary = result, !.summarizedCount = older]

\* askAIWithSmartContext from `olderCount` up to the summarizer call or, when
\* none is made, up to the record it builds messagesForModel from
contextStart(record) ==
  LET older == olderCountOf(record)
      chunk == newChunk(record, older)
  IN IF older > 0
       THEN IF record.summarizedCount < older
              THEN IF updateSummaryCalls(chunk)
                     THEN [await |-> TRUE, record |-> record, olderCount |-> older,
                           existingSummary |-> record.summary, newMessages |-> chunk]
                     ELSE [await |-> FALSE,
                           record |-> contextResume(record, older, record.summary),
                           olderCount |-> older,
                           existingSummary |-> record.summary, newMessages |-> chunk]
              ELSE [await |-> FALSE, record |-> record, olderCount |-> older,
                    existingSummary |-> "", newMessages |-> <<>>]
       ELSE [await |-> FALSE,
             record |-> [record EXCEPT !.summary = "", !.summarizedCount = 0],
             olderCount |-> older, existingSummary |-> "", newMessages |-> <<>>]

\* ------------------------------------------------------------- handlers
\* A handler's locals: from, the record and olderCount of
\* askAIWithSmartContext, the arguments of the summarizer call in flight,
\* messagesForModel, replyText.  As history: n, the number of this admitted
\* call among its user's (of a rejected call: the number of the user's
\* admitted calls before it); seen, the record's append count when the context
\* build began; raced, whether the record was appended to while the build
\* was suspended; prevReplied, whether the reply to the user's previous
\* admitted call was stored when messagesForModel was built.
IdleFlow ==
  [pc |-> "idle", from |-> "", n |-> 0, prevReplied |-> TRUE,
   seen |-> 0, raced |-> FALSE,
   record |-> NoRef, olderCount |-> 0, existingSummary |-> "",
   newMessages |-> <<>>, messagesForModel |-> <<>>, replyText |-> ""]

\* objects no Map entry and no handler refers to are unreachable
Collect(hp, hist, fl) ==
  [r \in {q \in DOMAIN hp :
            \/ \E i \in 1..Len(hist) : hist[i].ref = q
            \/ \E h \in DOMAIN fl : fl[h].record = q} |-> hp[r]]

\* the reply of a rejected message
RejectText(scope) == IF scope = "minute" THEN "too quickly" ELSE "hourly limit"

\* history: the turns of `chunk` were handed to one more summarizer call
Carried(record, chunk) ==
  [record EXCEPT !.messages =
     [i \in 1..Len(record.messages) |->
        IF \E k \in 1..Len(chunk) : chunk[k].id = record.messages[i].id
          THEN [record.messages[i] EXCEPT !.sent = @ + 1]
          ELSE record.messages[i]]]

\* history: the summarizer call that was handed `chunk` has thrown
Failed(record, chunk) ==
  [record EXCEPT !.messages =
     [i \in 1..Len(record.messages) |->
        IF \E k \in 1..Len(chunk) : chunk[k].id = record.messages[i].id
          THEN [record.messages[i] EXCEPT !.failed = TRUE]
          ELSE record.messages[i]]]

PrevReplied(u, n) == n = 1 \/ (n - 1) \in replied[u]

\* askAIWithSmartContext(userId) up to its first await: the Map, the heap
\* and the handler's locals there
askStart(hist, hp, userId, t) ==
  LET g == getRecord(hist, hp, userId, t)
      c == contextStart(g.heap[g.ref])
  IN [hist |-> g.hist,
      heap |-> [g.heap EXCEPT ![g.ref] =
                  IF c.await THEN Carried(c.record, c.newMessages) ELSE c.record],
      locals |-> [IdleFlow EXCEPT
                    !.pc = IF c.await THEN "summarizing" ELSE "completing",
                    !.from = userId,
                    !.seen = c.record.appended,
                    !.record = g.ref,
                    !.olderCount = c.olderCount,
                    !.existingSummary = c.existingSummary,
                    !.newMessages = c.newMessages,
                    !.messagesForModel =
                       IF c.await THEN <<>> ELSE messagesForModel(c.record)]]

\* askAIWithSmartContext after `await updateSummary(...)` up to the await of
\* the completion call
askResume(hp, f, outcome) ==
  LET result == summaryResult(f.existingSummary, outcome)
      held == IF outcome = "fail" THEN Failed(hp[f.record], f.newMessages)
                                  ELSE hp[f.record]
      rec == contextResume(held, f.olderCount, result)
  IN [heap |-> [hp EXCEPT ![f.record] = rec],
      locals |-> [f EXCEPT !.pc = "completing",
                           !.raced = hp[f.record].appended > f.seen,
                           !.messagesForModel = messagesForModel(rec)]]

IdleDriver == [calls |-> 0, returned |-> <<>>, summarized |-> <<>>, outcome |-> "none"]

Init ==
  /\ now = 0
  /\ userRate = [u \in {} |-> 0]
  /\ historyByUser = <<>>
  /\ heap = [r \in {} |-> 0]
  /\ flow = [h \in Flows |-> IdleFlow]
  /\ nmsg = 0
  /\ admitted = [u \in Users |-> <<>>]
  /\ replied = [u \in Users |-> {}]
  /\ lastActive = [u \in Users |-> -1]
  /\ grown = {}
  /\ started = [u \in Users |-> {}]
  /\ driver = IdleDriver

\* history: the users whose record in the Map holds more than the raw window
Grown(hist, hp) ==
  {u \in Keys(hist) : Len(hp[RefOf(hist, u)].messages) > RECENT_RAW_LIMIT}

\* Date.now() advances
Tick ==
  /\ now < MaxTime
  /\ now' = now + 1
  /\ UNCHANGED <<userRate, historyByUser, heap, flow, nmsg, histVars, driver>>

\* the setInterval callback
Sweep ==
  LET gone == StaleKeys(historyByUser, heap, now)
      hist1 == HistDelete(historyByUser, gone)
  IN /\ historyByUser' = hist1
     /\ userRate' = MapDelete(userRate, gone)
     /\ heap' = Collect(heap, hist1, flow)
     /\ UNCHANGED <<now, flow, nmsg, histVars, driver>>

ReceiveRejected_storesTurn(h, u, text) ==
  LET lim == checkUserLimit(userRate, u, now)
      p == pushToHistory(historyByUser, heap, u, "user", text, now)
      fl == [flow EXCEPT ![h] = [IdleFlow EXCEPT !.pc = "rejecting", !.from = u,
                                       !.n = Len(admitted[u]),
                                       !.replyText = RejectText(lim.scope)]]
  IN /\ flow[h].pc = "idle" /\ \A g \in 1..(h - 1) : flow[g].pc # "idle"
     /\ ~lim.ok
     /\ userRate' = lim.rate
     /\ historyByUser' = p.hist
     /\ flow' = fl
     /\ heap' = Collect(p.heap, p.hist, fl)
     /\ nmsg' = nmsg + 1
     /\ UNCHANGED <<now, histVars, driver>>
\* app.post("/webhook") for a text message the rate limiter rejects: up to
\* `await sendWhatsAppText(...)`
ReceiveRejected(h, u, text) ==
  LET lim == checkUserLimit(userRate, u, now)
  IN /\ flow[h].pc = "idle" /\ \A g \in 1..(h - 1) : flow[g].pc # "idle"
     /\ ~lim.ok
     /\ userRate' = lim.rate
     /\ flow' = [flow EXCEPT ![h] = [IdleFlow EXCEPT !.pc = "rejecting", !.from = u,
                                       !.n = Len(admitted[u]),
                                       !.replyText = RejectText(lim.scope)]]
     /\ nmsg' = nmsg + 1
     /\ UNCHANGED <<now, historyByUser, heap, histVars, driver>>

\* app.post("/webhook") for an admitted text message: checkUserLimit,
\* pushToHistory, and askAIWithSmartContext up to its first await
ReceiveAdmitted(h, u, text) ==
  LET lim == checkUserLimit(userRate, u, now)
      p == pushToHistory(historyByUser, heap, u, "user", text, now)
      a == askStart(p.hist, p.heap, u, now)
      n == Len(admitted[u]) + 1
      fl == [flow EXCEPT ![h] =
               [a.locals EXCEPT !.n = n,
                                !.prevReplied = (a.locals.pc = "summarizing")
                                                  \/ PrevReplied(u, n)]]
  IN /\ flow[h].pc = "idle" /\ \A g \in 1..(h - 1) : flow[g].pc # "idle"
     /\ lim.ok
     /\ userRate' = lim.rate
     /\ historyByUser' = a.hist
     /\ flow' = fl
     /\ heap' = Collect(a.heap, a.hist, fl)
     /\ nmsg' = nmsg + 1
     /\ admitted' = [admitted EXCEPT ![u] = Append(@, now)]
     /\ lastActive' = [lastActive EXCEPT ![u] = now]
     /\ grown' = grown \cup Grown(a.hist, a.heap)
     /\ started' = IF a.locals.pc = "completing"
                      THEN [started EXCEPT ![u] = @ \cup {[n |-> n, at |-> now]}]
                      ELSE started
     /\ UNCHANGED <<now, replied, driver>>

\* the summarizer's completion call returns or throws: updateSummary
\* returns, askAIWithSmartContext writes the record it holds, builds
\* messagesForModel and awaits the completion call
SummaryReturn(h, outcome) ==
  LET f == flow[h]
      a == askResume(heap, f, outcome)
      fl == [flow EXCEPT ![h] =
               [a.locals EXCEPT !.prevReplied = PrevReplied(f.from, f.n)]]
  IN /\ f.pc = "summarizing"
     /\ flow' = fl
     /\ heap' = a.heap
     /\ started' = [started EXCEPT ![f.from] = @ \cup {[n |-> f.n, at |-> now]}]
     /\ UNCHANGED <<now, userRate, historyByUser, nmsg, admitted, replied,
                    lastActive, grown, driver>>

\* the completion call returns or throws: askAIWithSmartContext returns and
\* the handler, `if (replyText)`, awaits the send, and otherwise ends
CompletionReturn(h, outcome) ==
  LET replyText == completionResult(outcome)
      fl == [flow EXCEPT ![h] =
               IF replyText # ""
                 THEN [IdleFlow EXCEPT !.pc = "sending",
                                       !.from = flow[h].from,
                                       !.n = flow[h].n,
                                       !.replyText = replyText]
                 ELSE IdleFlow]
  IN /\ flow[h].pc = "completing"
     /\ flow' = fl
     /\ heap' = Collect(heap, historyByUser, fl)
     /\ UNCHANGED <<now, userRate, historyByUser, nmsg, histVars, driver>>

\* sendWhatsAppText returns (its own errors are caught inside it): the
\* handler stores the assistant reply and ends
SendReturn(h) ==
  LET f == flow[h]
      p == pushToHistory(historyByUser, heap, f.from, "assistant", f.replyText, now)
      fl == [flow EXCEPT ![h] = IdleFlow]
  IN /\ f.pc = "sending"
     /\ historyByUser' = p.hist
     /\ flow' = fl
     /\ heap' = Collect(p.heap, p.hist, fl)
     /\ replied' = [replied EXCEPT ![f.from] = @ \cup {f.n}]
     /\ lastActive' = [lastActive EXCEPT ![f.from] = now]
     /\ grown' = grown \cup Grown(p.hist, p.heap)
     /\ UNCHANGED <<now, userRate, nmsg, admitted, started, driver>>

\* the send of a rejection text returns: the handler ends
RejectSendReturn(h) ==
  /\ flow[h].pc = "rejecting"
  /\ flow' = [flow EXCEPT ![h] = IdleFlow]
  /\ UNCHANGED <<now, userRate, historyByUser, heap, nmsg, histVars, driver>>

Next ==
  \/ Tick
  \/ Sweep
  \/ \E h \in Flows, u \in Users, text \in Texts :
       nmsg < MaxMsgs /\ ReceiveRejected(h, u, text)
  \/ \E h \in Flows, u \in Users, text \in Texts :
       nmsg < MaxMsgs /\ ReceiveAdmitted(h, u, text)
  \/ \E h \in Flows, outcome \in {"fail", "empty"} \cup SummaryTexts :
       SummaryReturn(h, outcome)
  \/ \E h \in Flows, outcome \in {"fail", "empty"} \cup ModelTexts :
       CompletionReturn(h, outcome)
  \/ \E h \in Flows : SendReturn(h)
  \/ \E h \in Flows : RejectSendReturn(h)

Spec == Init /\ [][Next]_vars

\* the external call a handler awaits returns or throws (a handler awaits
\* at most one)
Return(h) ==
  \/ \E outcome \in {"fail", "empty"} \cup SummaryTexts : SummaryReturn(h, outcome)
  \/ \E outcome \in {"fail", "empty"} \cup ModelTexts : CompletionReturn(h, outcome)
  \/ SendReturn(h)
  \/ RejectSendReturn(h)

\* Every external call in flight eventually returns or throws.
Fairness == \A h \in Flows : WF_vars(Return(h))

\* The handlers of the first LiveMsgs text messages, with every external
\* call eventually returning.
LiveNext ==
  \/ Tick
  \/ Sweep
  \/ \E h \in Flows, u \in Users, text \in Texts :
       nmsg < LiveMsgs /\ ReceiveRejected(h, u, text)
  \/ \E h \in Flows, u \in Users, text \in Texts :
       nmsg < LiveMsgs /\ ReceiveAdmitted(h, u, text)
  \/ \E h \in Flows, outcome \in {"fail", "empty"} \cup SummaryTexts :
       SummaryReturn(h, outcome)
  \/ \E h \in Flows, outcome \in {"fail", "empty"} \cup ModelTexts :
       CompletionReturn(h, outcome)
  \/ \E h \in Flows : SendReturn(h)
  \/ \E h \in Flows : RejectSendReturn(h)

LiveSpec == Init /\ [][LiveNext]_vars /\ Fairness

\* ------------------------------------------- one user, three handlers
\* The handlers of one user's messages, one message and one concurrent
\* handler more than in Spec: the least at which a third context build can
\* begin while two earlier ones of the same record have not both finished.
\* The user sends only messages that are admitted, the summarizer returns a
\* summary or throws, the completion call returns content.
RaceUser == "u1"
RaceFlows == 1..(MaxFlows + 1)
RaceMsgs == MaxMsgs + 1

RaceInit ==
  /\ now = 0
  /\ userRate = [u \in {} |-> 0]
  /\ historyByUser = <<>>
  /\ heap = [r \in {} |-> 0]
  /\ flow = [h \in RaceFlows |-> IdleFlow]
  /\ nmsg = 0
  /\ admitted = [u \in Users |-> <<>>]
  /\ replied = [u \in Users |-> {}]
  /\ lastActive = [u \in Users |-> -1]
  /\ grown = {}
  /\ started = [u \in Users |-> {}]
  /\ driver = IdleDriver

RaceNext ==
  \/ Tick
  \/ Sweep
  \/ \E h \in RaceFlows, text \in Texts :
       nmsg < RaceMsgs /\ ReceiveAdmitted(h, RaceUser, text)
  \/ \E h \in RaceFlows, outcome \in {"fail", "s1"} : SummaryReturn(h, outcome)
  \/ \E h \in RaceFlows, outcome \in ModelTexts : CompletionReturn(h, outcome)
  \/ \E h \in RaceFlows : SendReturn(h)

RaceSpec == RaceInit /\ [][RaceNext]_vars

\* ------------------------------------------- two builds in succession
\* A caller that invokes askAIWithSmartContext("u1") twice, the second call
\* after the first has returned, on a store holding one record of u1 and
\* with nothing else running.  (In the webhook handler every call follows a
\* pushToHistory of the same handler, so two calls with no append between
\* them arise only for a direct caller.)
TwiceUser == "u1"
TwiceTurn(role, id) ==
  [role |-> role, content |-> IF role = "user" THEN "hi" ELSE "re", id |-> id,
   sent |-> 0, failed |-> FALSE]
\* the records a store can hold after a push: 1..HISTORY_LIMIT turns, the
\* oldest possibly trimmed away, the summary state of any earlier builds
TwiceRecords ==
  {[messages |-> [i \in 1..len |-> TwiceTurn(roles[i], dropped + i)],
    summary |-> summary, summarizedCount |-> count, lastSeen |-> 0,
    appended |-> dropped + len] :
     len \in 1..HISTORY_LIMIT, dropped \in 0..1,
     roles \in [1..HISTORY_LIMIT -> {"user", "assistant"}],
     summary \in {""} \cup SummaryTexts, count \in 0..HISTORY_LIMIT}

TwiceInit ==
  /\ now = 0
  /\ userRate = [u \in {} |-> 0]
  /\ historyByUser = <<[key |-> TwiceUser, ref |-> 1]>>
  /\ \E rec \in TwiceRecords :
       /\ rec.summarizedCount <= Max(0, Len(rec.messages) - RECENT_RAW_LIMIT)
       /\ Len(rec.messages) <= RECENT_RAW_LIMIT => rec.summary = ""
       /\ rec.appended > Len(rec.messages) => Len(rec.messages) = HISTORY_LIMIT
       /\ heap = [r \in {1} |-> rec]
  /\ flow = [h \in Flows |-> IdleFlow]
  /\ nmsg = 0
  /\ admitted = [u \in Users |-> <<>>]
  /\ replied = [u \in Users |-> {}]
  /\ lastActive = [u \in Users |-> -1]
  /\ grown = {}
  /\ started = [u \in Users |-> {}]
  /\ driver = IdleDriver

\* the caller invokes askAIWithSmartContext: it runs to its first await
TwiceCall ==
  LET a == askStart(historyByUser, heap, TwiceUser, now)
  IN /\ driver.calls < 2
     /\ flow[1].pc = "idle"
     /\ historyByUser' = a.hist
     /\ heap' = a.heap
     /\ flow' = [flow EXCEPT ![1] = a.locals]
     /\ driver' = [driver EXCEPT !.calls = @ + 1,
                                 !.summarized = Append(@, a.locals.pc = "summarizing")]
     /\ UNCHANGED <<now, userRate, nmsg, histVars>>

\* the summarizer call of the invocation in progress returns or throws
TwiceSummaryReturn(outcome) ==
  LET a == askResume(heap, flow[1], outcome)
  IN /\ flow[1].pc = "summarizing"
     /\ heap' = a.heap
     /\ flow' = [flow EXCEPT ![1] = a.locals]
     /\ driver' = [driver EXCEPT !.outcome = IF driver.calls = 1 THEN outcome ELSE @]
     /\ UNCHANGED <<now, userRate, historyByUser, nmsg, histVars>>

\* the completion call returns or throws: the invocation returns to the
\* caller, which keeps the sequence the invocation handed to the model
TwiceReturn(outcome) ==
  /\ flow[1].pc = "completing"
  /\ flow' = [flow EXCEPT ![1] = IdleFlow]
  /\ driver' = [driver EXCEPT !.returned = Append(@, flow[1].messagesForModel)]
  /\ UNCHANGED <<now, userRate, historyByUser, heap, nmsg, histVars>>

TwiceNext ==
  \/ TwiceCall
  \/ \E outcome \in {"fail", "empty"} \cup SummaryTexts : TwiceSummaryReturn(outcome)
  \/ \E outcome \in {"fail", "empty"} \cup ModelTexts : TwiceReturn(outcome)

TwiceSpec == TwiceInit /\ [][TwiceNext]_vars

\* ------------------------------------------------ the store on its own
\* Callers that invoke pushToHistory directly, for three users, with ticks
\* and sweeper runs between the calls.  The ceiling (500 in the source, 1 in
\* Spec) is 2 here: the least ceiling at which the eviction loop chooses
\* among records stored earlier, whose lastSeen order may differ from their
\* insertion order.
EvictUsers == {"u1", "u2", "u3"}
MAX_USERS_IN_MEMORY_2 == 2

EvictInit == Init

\* pushToHistory(u, "user", text) called at time now
EvictPush(u, text) ==
  LET p == pushToHistoryAt(MAX_USERS_IN_MEMORY_2, historyByUser, heap, u,
                           "user", text, now)
  IN /\ nmsg < MaxPushes
     /\ historyByUser' = p.hist
     /\ heap' = Collect(p.heap, p.hist, flow)
     /\ nmsg' = nmsg + 1
     /\ UNCHANGED <<now, userRate, flow, histVars, driver>>

EvictNext ==
  \/ Tick
  \/ Sweep
  \/ \E u \in EvictUsers, text \in Texts : EvictPush(u, text)

EvictSpec == EvictInit /\ [][EvictNext]_vars

\* ------------------------------------------------ the request's shape
\* The end of askAIWithSmartContext (from `recent` to messagesForModel) on
\* its own, applied to one record.  The raw window (50 in the source, 1 in
\* Spec) is 2 here: the least at which a record can be shorter than the
\* window and the window holds turns whose order matters.
RECENT_RAW_LIMIT_2 == 2

\* the records a build can reach that point with: 1..HISTORY_LIMIT turns, a
\* summary only when turns lie before the window
ShapeInit ==
  /\ now = 0
  /\ userRate = [u \in {} |-> 0]
  /\ historyByUser = <<[key |-> TwiceUser, ref |-> 1]>>
  /\ \E rec \in TwiceRecords :
       /\ rec.summarizedCount = Max(0, Len(rec.messages) - RECENT_RAW_LIMIT_2)
       /\ Len(rec.messages) <= RECENT_RAW_LIMIT_2 => rec.summary = ""
       /\ rec.appended > Len(rec.messages) => Len(rec.messages) = HISTORY_LIMIT
       /\ heap = [r \in {1} |-> rec]
  /\ flow = [h \in Flows |-> IdleFlow]
  /\ nmsg = 0
  /\ admitted = [u \in Users |-> <<>>]
  /\ replied = [u \in Users |-> {}]
  /\ lastActive = [u \in Users |-> -1]
  /\ grown = {}
  /\ started = [u \in Users |-> {}]
  /\ driver = IdleDriver

\* the build reaches the completion call with the array it has put together
ShapeBuild ==
  /\ driver.calls = 0
  /\ driver' = [driver EXCEPT
                  !.calls = 1,
                  !.returned = <<messagesForModelAt(RECENT_RAW_LIMIT_2, heap[1])>>]
  /\ UNCHANGED <<now, userRate, historyByUser, heap, flow, nmsg, histVars>>

ShapeNext == ShapeBuild

ShapeSpec == ShapeInit /\ [][ShapeNext]_vars

\* ================================================================ claims
Records == {heap[r] : r \in DOMAIN heap}

\* the admitted calls of u with s <= time < s + w
AdmittedIn(u, s, w) ==
  Cardinality({i \in 1..Len(admitted[u]) :
                 admitted[u][i] >= s /\ admitted[u][i] < s + w})

\* C1: for every user, the admitted checkUserLimit calls whose times fall in
\* any window of one minute number at most PER_MIN, and those in any window
\* of one hour at most PER_HOUR, whatever sweeper runs and capacity
\* evictions are interleaved.  (A window of length w is s <= t < s + w.)
C1_AdmittedWithinLimits ==
  \A u \in Users : \A s \in 0..MaxTime :
    /\ AdmittedIn(u, s, MIN_WINDOW_MS) <= PER_MIN
    /\ AdmittedIn(u, s, HOUR_WINDOW_MS) <= PER_HOUR

\* a user with a full hour window is being told it was rejected
C1_Witness ==
  \E h \in Flows : \E s \in 0..MaxTime :
    /\ flow[h].pc = "rejecting"
    /\ flow[h].replyText = RejectText("hour")
    /\ AdmittedIn(flow[h].from, s, HOUR_WINDOW_MS) = PER_HOUR

\* C2: every conversation record holds at most HISTORY_LIMIT messages.
C2_HistoryBounded ==
  \A rec \in Records : Len(rec.messages) <= HISTORY_LIMIT

\* a record that is full and has had turns trimmed away
C2_Witness ==
  \E rec \in Records :
    Len(rec.messages) = HISTORY_LIMIT /\ rec.appended > HISTORY_LIMIT

\* C3: in every record 0 <= summarizedCount <= messages.length, also after a
\* context build suspended on the summarizer resumes and writes
\* summarizedCount once other handlers have appended to the record.
C3_SummarizedCountInRange ==
  \A rec \in Records :
    0 <= rec.summarizedCount /\ rec.summarizedCount <= Len(rec.messages)

\* a build has resumed on a record that was appended to, and trimmed, while
\* it was suspended
C3_Witness ==
  \E h \in Flows :
    /\ flow[h].pc = "completing" /\ flow[h].raced
    /\ heap[flow[h].record].appended > HISTORY_LIMIT
    /\ heap[flow[h].record].summarizedCount = flow[h].olderCount

\* the entries of a request after the system instruction that are summary
\* entries
SummaryEntries(request) ==
  {i \in 2..Len(request) : request[i].role = "system"}

\* C4: a context build that runs on a record of at most RECENT_RAW_LIMIT
\* messages does not call the summarizer, leaves summary "" and
\* summarizedCount 0, and hands the model no summary entry.
C4_ShortRecordNoSummary ==
  [][\A h \in Flows :
       (flow[h].pc = "idle" /\ flow'[h].pc \in {"summarizing", "completing"}) =>
         LET rec == heap'[flow'[h].record]
         IN Len(rec.messages) <= RECENT_RAW_LIMIT =>
              /\ flow'[h].pc = "completing"
              /\ rec.summary = "" /\ rec.summarizedCount = 0
              /\ SummaryEntries(flow'[h].messagesForModel) = {}]_vars

\* a build on the fresh record of a user whose earlier record outgrew the
\* raw window and was removed
C4_Witness ==
  \E h \in Flows :
    /\ flow[h].pc = "completing" /\ flow[h].olderCount = 0
    /\ flow[h].from \in grown
    /\ heap[flow[h].record].appended <= RECENT_RAW_LIMIT

\* C5: two context builds in succession with no append between them hand the
\* model the same sequence, and the second does not call the summarizer.
C5_TwiceSameSequence ==
  /\ Len(driver.summarized) = 2 => ~driver.summarized[2]
  /\ Len(driver.returned) = 2 => driver.returned[1] = driver.returned[2]

\* both builds have returned and the summarizer call of the first failed
C5_Witness ==
  /\ Len(driver.returned) = 2
  /\ driver.summarized[1] /\ driver.outcome = "fail"

\* C6: a context build with olderCount > 0 and summarizedCount < olderCount
\* calls the summarizer once, with the record's summary and exactly the
\* turns at indices [summarizedCount, olderCount) in order; when the call
\* returns the build sets summarizedCount to that olderCount.
C6_ChunkIsTheAgedOutTurns ==
  [][\A h \in Flows :
       /\ (flow[h].pc = "idle" /\ flow'[h].pc \in {"summarizing", "completing"}) =>
            LET f == flow'[h]
                rec == heap'[f.record]
                older == Len(rec.messages) - RECENT_RAW_LIMIT
            IN (older > 0 /\ rec.summarizedCount < older) =>
                 /\ f.pc = "summarizing"
                 /\ f.olderCount = older
                 /\ f.existingSummary = rec.summary
                 /\ Len(f.newMessages) = older - rec.summarizedCount
                 /\ \A k \in 1..Len(f.newMessages) :
                      /\ f.newMessages[k].id = rec.messages[rec.summarizedCount + k].id
                      /\ f.newMessages[k].role = rec.messages[rec.summarizedCount + k].role
                      /\ f.newMessages[k].content
                           = rec.messages[rec.summarizedCount + k].content
       /\ (flow[h].pc = "summarizing" /\ flow'[h] # flow[h]) =>
            /\ flow'[h].pc = "completing"
            /\ heap'[flow[h].record].summarizedCount = flow[h].olderCount
       /\ flow[h].pc = "completing" => flow'[h].pc # "summarizing"]_vars

\* a build has summarized a chunk that starts after the record's first turn
C6_Witness ==
  \E h \in Flows :
    /\ flow[h].pc = "completing"
    /\ Len(flow[h].newMessages) > 0
    /\ flow[h].newMessages[1].id > heap[flow[h].record].messages[1].id
    /\ heap[flow[h].record].summarizedCount = flow[h].olderCount

\* C7: the reply to an admitted message of a user is stored before the
\* context of the user's next admitted message is built.
C7_ReplyBeforeNextContext ==
  \A h \in Flows : flow[h].pc = "completing" => flow[h].prevReplied

\* C8: no turn is handed to the summarizer by two calls.
C8_TurnSummarizedOnce ==
  \A rec \in Records : \A i \in 1..Len(rec.messages) : rec.messages[i].sent <= 1

\* C9: every turn stored at an index below summarizedCount has been handed
\* to the summarizer.
C9_CountedTurnsWereSummarized ==
  \A rec \in Records :
    \A i \in 1..Len(rec.messages) :
      i <= rec.summarizedCount => rec.messages[i].sent >= 1

\* C10: a sweeper run at time now leaves neither a conversation record nor a
\* rate record for any user idle for more than STALE_MS, and removes no
\* record of a user with now - lastSeen <= STALE_MS.
C10_SweepRemovesExactlyTheIdle ==
  [][Sweep =>
       /\ \A u \in Users :
            (lastActive[u] >= 0 /\ now - lastActive[u] > STALE_MS) =>
              (u \notin Keys(historyByUser') /\ u \notin DOMAIN userRate')
       /\ \A u \in Keys(historyByUser) :
            now - heap[RefOf(historyByUser, u)].lastSeen <= STALE_MS =>
              /\ u \in Keys(historyByUser')
              /\ u \in DOMAIN userRate => u \in DOMAIN userRate']_vars

\* C11: when pushToHistory's capacity eviction removes a user's conversation
\* record, no rate record remains for that user either.
C11_EvictionDestroysBoth ==
  [][~Sweep =>
       \A u \in Keys(historyByUser) \ Keys(historyByUser') :
         u \notin DOMAIN userRate']_vars

\* the keys tracked while pushToHistory(u, ...) runs its eviction check, in
\* insertion order, and the lastSeen each has then
TrackedAtPush(u) ==
  LET keys == [i \in 1..Len(historyByUser) |-> historyByUser[i].key]
  IN IF u \in Keys(historyByUser) THEN keys ELSE Append(keys, u)
LastSeenAtPush(u, k) ==
  IF k = u THEN now ELSE heap[RefOf(historyByUser, k)].lastSeen

\* C12: after every pushToHistory the number of conversation records is at
\* most the ceiling, and a record the push evicts has the least lastSeen of
\* all records tracked at that moment, and is the first in insertion order
\* among those of least lastSeen.
C12_EvictsTheOldest ==
  [][\A u \in EvictUsers : \A text \in Texts :
       EvictPush(u, text) =>
         LET tracked == TrackedAtPush(u)
             gone == {i \in 1..Len(tracked) : tracked[i] \notin Keys(historyByUser')}
         IN /\ Len(historyByUser') <= MAX_USERS_IN_MEMORY_2
            /\ Cardinality(gone) <= 1
            /\ \A i \in gone :
                 /\ \A j \in 1..Len(tracked) :
                      LastSeenAtPush(u, tracked[j]) >= LastSeenAtPush(u, tracked[i])
                 /\ \A j \in 1..(i - 1) :
                      LastSeenAtPush(u, tracked[j]) > LastSeenAtPush(u, tracked[i])]_vars

\* no sweeper run can have removed anything yet; u1's record was created
\* first and pushed to twice, u2's second, u3's third; u2's record, stored
\* after u1's but touched less recently, is the one that was evicted
C12_Witness ==
  /\ now <= STALE_MS /\ nmsg = 4
  /\ historyByUser = <<[key |-> "u1", ref |-> 1], [key |-> "u3", ref |-> 3]>>
  /\ heap[1].appended = 2 /\ heap[3].appended = 1

\* C13: a rejected checkUserLimit call leaves the user's stored rate record
\* as it was: neither stored window differs after the call.
C13_RejectedLeavesRecordUnchanged ==
  [][\A h \in Flows : \A u \in Users : \A text \in Texts :
       ReceiveRejected(h, u, text) => userRate' = userRate]_vars

\* the timestamps of `hits` that are less than `window` old at time t: the
\* stored windows are in ascending order, so they are the last ones
StillInside(hits, t, window) ==
  LET n == Cardinality({i \in 1..Len(hits) : t - hits[i] < window})
  IN [i \in 1..n |-> hits[Len(hits) - n + i]]

\* C13 (amended): a rejected checkUserLimit call records no hit; it leaves in
\* each stored window of the user exactly the timestamps stored before that
\* are still inside the window, touches no other user's record, and a retry
\* at the same instant is rejected with the same scope and changes nothing.
C13_RejectedRecordsNoHit ==
  [][\A h \in Flows : \A u \in Users : \A text \in Texts :
       ReceiveRejected(h, u, text) =>
         LET retry == checkUserLimit(userRate', u, now)
         IN /\ u \in DOMAIN userRate /\ DOMAIN userRate' = DOMAIN userRate
            /\ \A v \in DOMAIN userRate \ {u} : userRate'[v] = userRate[v]
            /\ userRate'[u].min = StillInside(userRate[u].min, now, MIN_WINDOW_MS)
            /\ userRate'[u].hour = StillInside(userRate[u].hour, now, HOUR_WINDOW_MS)
            /\ ~retry.ok /\ RejectText(retry.scope) = flow'[h].replyText
            /\ retry.rate = userRate']_vars

\* a call rejected for the hour limit has pruned the stored minute window
\* to nothing: the stored record differs from the one before the call
C13_Witness ==
  \E h \in Flows :
    /\ flow[h].pc = "rejecting" /\ flow[h].replyText = RejectText("hour")
    /\ flow[h].from \in DOMAIN userRate
    /\ userRate[flow[h].from].min = <<>>
    /\ Len(userRate[flow[h].from].hour) = PER_HOUR

\* the admitted calls of u that are less than w old at time t
HitsWithin(u, t, w) ==
  Cardinality({i \in 1..Len(admitted[u]) : t - admitted[u][i] < w})

\* C14: for every user and time, checkUserLimit rejects with scope "minute"
\* iff at least PER_MIN admitted calls of the user lie within the last
\* minute; otherwise rejects with scope "hour" iff at least PER_HOUR lie
\* within the last hour; otherwise admits and records now in both windows.
\* When both limits are reached the scope is "minute".
C14_DecisionTable ==
  [][\A h \in Flows :
       (flow[h].pc = "idle" /\ flow'[h].pc # "idle") =>
         LET u == flow'[h].from
             m == HitsWithin(u, now, MIN_WINDOW_MS)
             hr == HitsWithin(u, now, HOUR_WINDOW_MS)
             rejected == flow'[h].pc = "rejecting"
         IN /\ (rejected /\ flow'[h].replyText = RejectText("minute")) <=> m >= PER_MIN
            /\ (rejected /\ flow'[h].replyText = RejectText("hour"))
                 <=> (m < PER_MIN /\ hr >= PER_HOUR)
            /\ ~rejected <=> (m < PER_MIN /\ hr < PER_HOUR)
            /\ ~rejected =>
                 /\ u \in DOMAIN userRate'
                 /\ Len(userRate'[u].min) = m + 1 /\ userRate'[u].min[m + 1] = now
                 /\ Len(userRate'[u].hour) = hr + 1 /\ userRate'[u].hour[hr + 1] = now
                 /\ admitted'[u] = Append(admitted[u], now)
            /\ rejected => admitted' = admitted]_vars

\* a call rejected with scope "minute" when PER_HOUR admitted calls of the
\* user, all made before it, lay within the hour as well
C14_Witness ==
  \E h \in Flows :
    /\ flow[h].pc = "rejecting" /\ flow[h].replyText = RejectText("minute")
    /\ flow[h].n = PER_HOUR
    /\ HitsWithin(flow[h].from, now, HOUR_WINDOW_MS) = PER_HOUR

\* what a rejected message must not do: append a turn, create or touch a
\* record, start a summarizer or completion call, now or when its rejection
\* text has been sent
RejectedTriggersNothing ==
  /\ \A h \in Flows : \A u \in Users : \A text \in Texts :
       ReceiveRejected(h, u, text) =>
         /\ historyByUser' = historyByUser /\ heap' = heap
         /\ flow'[h].pc = "rejecting"
         /\ started' = started
  /\ \A h \in Flows :
       (flow[h].pc = "rejecting" /\ flow'[h] # flow[h]) =>
         /\ flow'[h].pc = "idle"
         /\ historyByUser' = historyByUser /\ heap' = heap
         /\ started' = started

\* C15: a message the rate limiter rejects appends no turn, builds no
\* context and triggers no summarizer or completion call; and per user the
\* completion calls started in any window of one minute number at most
\* PER_MIN.
C15_RejectedTriggersNothing ==
  [][/\ RejectedTriggersNothing
     /\ \A u \in Users : \A s \in 0..MaxTime :
          Cardinality({e \in started'[u] : e.at >= s /\ e.at < s + MIN_WINDOW_MS})
            <= PER_MIN]_vars

\* C15 (amended): a message the rate limiter rejects appends no turn, builds
\* no context and triggers no summarizer or completion call; every
\* completion call belongs to one admitted message, which has no other, and
\* starts no earlier than that message arrived; so per user the completion
\* calls for the messages received in any window of one minute number at
\* most PER_MIN.
C15_OnlyAdmittedReachTheModel ==
  [][/\ RejectedTriggersNothing
     /\ \A u \in Users :
          /\ \A e \in started'[u] :
               /\ e.n \in 1..Len(admitted'[u])
               /\ e.at >= admitted'[u][e.n]
               /\ \A d \in started'[u] : d.n = e.n => d = e
          /\ \A s \in 0..MaxTime :
               Cardinality({e \in started'[u] :
                              /\ admitted'[u][e.n] >= s
                              /\ admitted'[u][e.n] < s + MIN_WINDOW_MS})
                 <= PER_MIN]_vars

\* a message of a user is being rejected while the build for the user's
\* second admitted message waits for the summarizer, and the record holds
\* only the turns of the admitted messages and the one reply
C15_Witness ==
  \E h \in Flows : \E g \in Flows :
    /\ flow[h].pc = "rejecting" /\ flow[g].pc = "summarizing"
    /\ flow[g].from = flow[h].from /\ flow[g].n = 2
    /\ heap[flow[g].record].appended = 3
    /\ started[flow[h].from] = {[n |-> 1, at |-> 0]}

\* the last turn of the record the Map holds for u
LastTurn(hist, hp, u) ==
  LET rec == hp[RefOf(hist, u)] IN rec.messages[Len(rec.messages)]

\* C16: every admitted text message is eventually answered: once the
\* completion call returns or throws, the handler hands sendWhatsAppText
\* one non-empty text, the model's content or, when the call failed or
\* returned no content, the fallback text; once the send returns or fails
\* the handler appends that text as an assistant turn and ends; no message
\* is answered twice.  (The stored replies only grow and the messages of a
\* behaviour are finitely many, so "each admitted message is eventually
\* answered" is "eventually every admitted message has been answered".)
C16_AdmittedGetsOneReply ==
  /\ [][\A h \in Flows :
          /\ \A outcome \in {"fail", "empty"} \cup ModelTexts :
               CompletionReturn(h, outcome) =>
                 /\ flow'[h].pc = "sending"
                 /\ flow'[h].from = flow[h].from /\ flow'[h].n = flow[h].n
                 /\ flow'[h].replyText # ""
                 /\ flow'[h].replyText
                      = (IF outcome \in {"fail", "empty"} THEN FALLBACK ELSE outcome)
          /\ (flow[h].pc \in {"summarizing", "completing"} /\ flow'[h] # flow[h]) =>
               flow'[h].pc \in {"completing", "sending"}
          /\ (flow[h].pc = "sending" /\ flow'[h] # flow[h]) =>
               /\ flow'[h].pc = "idle"
               /\ flow[h].n \notin replied[flow[h].from]
               /\ replied'[flow[h].from] = replied[flow[h].from] \cup {flow[h].n}
               /\ flow[h].from \in Keys(historyByUser')
               /\ LastTurn(historyByUser', heap', flow[h].from).role = "assistant"
               /\ LastTurn(historyByUser', heap', flow[h].from).content
                    = flow[h].replyText]_vars
  /\ <>[](\A u \in Users : \A k \in 1..Len(admitted[u]) : k \in replied[u])

\* the reply to a user's second message, whose completion call failed, is
\* stored: the fallback text
C16_Witness ==
  \E u \in Keys(historyByUser) :
    /\ 2 \in replied[u]
    /\ LastTurn(historyByUser, heap, u).role = "assistant"
    /\ LastTurn(historyByUser, heap, u).content = FALLBACK
    /\ LastTurn(historyByUser, heap, u).id = 4

\* C17: updateSummary is not called on an empty chunk; when the summarizer's
\* call throws, updateSummary returns the existing summary, the build sets
\* summarizedCount to its olderCount and goes on to the completion call; and
\* no turn of a chunk whose call has thrown is handed to a summarizer call
\* that begins afterwards.
C17_FailedChunkNotOfferedAgain ==
  [][\A h \in DOMAIN flow :
       /\ (flow[h].pc = "idle" /\ flow'[h].pc = "summarizing") =>
            /\ Len(flow'[h].newMessages) > 0
            /\ \A i \in 1..Len(heap'[flow'[h].record].messages) :
                 LET turn == heap'[flow'[h].record].messages[i]
                 IN (\E k \in 1..Len(flow'[h].newMessages) :
                       flow'[h].newMessages[k].id = turn.id) => ~turn.failed
       /\ SummaryReturn(h, "fail") =>
            /\ heap'[flow[h].record].summary = flow[h].existingSummary
            /\ heap'[flow[h].record].summarizedCount = flow[h].olderCount
            /\ flow'[h].pc = "completing"]_vars

\* `request` is, for the record `rec` and a raw window of `limit` turns: the
\* system instruction, then a summary entry iff rec.summary is not empty,
\* then the last min(limit, messages.length) turns of rec in their order
RequestShape(limit, rec, request) ==
  LET hasSummary == rec.summary # ""
      offset == IF hasSummary THEN 2 ELSE 1
      k == Min(limit, Len(rec.messages))
  IN /\ Len(request) = offset + k
     /\ request[1].role = "system" /\ request[1].content = "instruction"
     /\ hasSummary => (request[2].role = "system" /\ request[2].content = rec.summary)
     /\ \A i \in 1..k :
          LET turn == rec.messages[Len(rec.messages) - k + i]
          IN /\ request[offset + i].role = turn.role
             /\ request[offset + i].role \in {"user", "assistant"}
             /\ request[offset + i].content = turn.content
             /\ request[offset + i].id = turn.id

\* C18: the array a context build hands to the model is the system
\* instruction, then one system-role summary entry iff the record's summary
\* is not empty, then exactly the last min(RECENT_RAW_LIMIT, messages.length)
\* stored turns in their order.
C18_RequestShape ==
  driver.calls = 1 => RequestShape(RECENT_RAW_LIMIT_2, heap[1], driver.returned[1])

\* a request built from a full record with a summary: four entries
C18_Witness ==
  /\ driver.calls = 1
  /\ Len(heap[1].messages) = HISTORY_LIMIT /\ heap[1].summary # ""
  /\ heap[1].messages[2].role # heap[1].messages[3].role
  /\ Len(driver.returned[1]) = 4

\* the same in the handlers, where the raw window is RECENT_RAW_LIMIT: every
\* build that reaches the completion call hands it a request of that shape
\* for the record as it then is, and a build leaves the turns of its record
\* as they are
RequestShapeInHandlers ==
  [][\A h \in DOMAIN flow :
       /\ (flow[h].pc # "completing" /\ flow'[h].pc = "completing") =>
            RequestShape(RECENT_RAW_LIMIT, heap'[flow'[h].record],
                         flow'[h].messagesForModel)
       /\ (flow[h].pc = "summarizing" /\ flow'[h].pc = "completing") =>
            Entries(heap'[flow[h].record].messages)
              = Entries(heap[flow[h].record].messages)]_vars

\* C19: the messages of a record are a contiguous suffix, in append order,
\* of the turns ever appended to it: an append puts the new turn at the end,
\* and a trim removes only the oldest overflow = length - HISTORY_LIMIT turns
\* and lowers summarizedCount by overflow, not below 0 (a context build that
\* begins in the same step on a record within the raw window resets it).
C19_MessagesAreASuffix ==
  [][\A r \in DOMAIN heap' :
       LET new == heap'[r]
       IN /\ \A i \in 1..Len(new.messages) :
               new.messages[i].id = new.appended - Len(new.messages) + i
          /\ r \notin DOMAIN heap => (new.appended = 1 /\ Len(new.messages) = 1)
          /\ r \in DOMAIN heap =>
               LET old == heap[r]
                   overflow == Max(0, Len(old.messages) + 1 - HISTORY_LIMIT)
               IN \/ /\ new.appended = old.appended
                     /\ Entries(new.messages) = Entries(old.messages)
                  \/ /\ new.appended = old.appended + 1
                     /\ Len(new.messages) = Len(old.messages) + 1 - overflow
                     /\ \A i \in 1..(Len(new.messages) - 1) :
                          Entry(new.messages[i]) = Entry(old.messages[i + overflow])
                     /\ \/ new.summarizedCount = Max(0, old.summarizedCount - overflow)
                        \/ /\ Len(new.messages) <= RECENT_RAW_LIMIT
                           /\ new.summarizedCount = 0]_vars

\* no handler is running and a record that has been trimmed still counts a
\* turn as summarized: the push of the last reply dropped the oldest turn
\* and lowered a summarizedCount of at least 2 by one
C19_Witness ==
  /\ \A h \in DOMAIN flow : flow[h].pc = "idle"
  /\ \E rec \in Records :
       /\ rec.appended > HISTORY_LIMIT
       /\ rec.summarizedCount >= 1
       /\ rec.messages[Len(rec.messages)].role = "assistant"

\* C20: in every record summarizedCount <= max(0, messages.length -
\* RECENT_RAW_LIMIT): no stored turn is both counted as summarized and among
\* the last RECENT_RAW_LIMIT turns.
C20_CountStaysBeforeTheWindow ==
  \A rec \in Records :
    rec.summarizedCount <= Max(0, Len(rec.messages) - RECENT_RAW_LIMIT)

\* a record that has been trimmed and whose summarizedCount is the largest
\* the bound allows
C20_Witness ==
  \E rec \in Records :
    /\ rec.appended > HISTORY_LIMIT
    /\ Len(rec.messages) = HISTORY_LIMIT
    /\ rec.summarizedCount = HISTORY_LIMIT - RECENT_RAW_LIMIT

\* C21: the assistant reply to an admitted message is appended to the record
\* that holds the user turn it answers: when the handler stores the reply,
\* the Map still holds a record for the user, so that no fresh record is
\* created for the reply alone, and it is that record the reply is pushed
\* to; and the summary and summarizedCount a resumed context build writes go
\* to the record the Map holds for the user at that moment.
C21_ReplyJoinsItsUserTurn ==
  [][\A h \in Flows :
       /\ SendReturn(h) =>
            /\ flow[h].from \in Keys(historyByUser)
            /\ RefOf(historyByUser', flow[h].from)
                 = RefOf(historyByUser, flow[h].from)
            /\ heap'[RefOf(historyByUser', flow[h].from)].appended > 1
       /\ (flow[h].pc = "summarizing" /\ flow'[h].pc = "completing") =>
            /\ flow[h].from \in Keys(historyByUser)
            /\ RefOf(historyByUser, flow[h].from) = flow[h].record]_vars

\* the two halves of C21 taken apart: the stored reply, the resumed build
ReplyNotInAFreshRecord ==
  [][\A h \in Flows :
       SendReturn(h) => flow[h].from \in Keys(historyByUser)]_vars

ResumedBuildWritesTheStoredRecord ==
  [][\A h \in Flows :
       (flow[h].pc = "summarizing" /\ flow'[h].pc = "completing") =>
         RefOf(historyByUser, flow[h].from) = flow[h].record]_vars

====
